---- MODULE Spec2Model ----
(***************************************************************************)
(* Model of the exchange client of hyperliquid-rust-sdk                    *)
(* (src/exchange/exchange_client.rs, src/signature/agent.rs).              *)
(*                                                                         *)
(* A client is built once by ExchangeClient::new, which fetches the        *)
(* metadata itself when it is given none and returns an error, and no      *)
(* client, when the fetch fails.  Every public operation is an async       *)
(* function whose only suspension point is the HTTP post, so a call is two *)
(* steps: the synchronous part up to the moment the signed envelope is     *)
(* handed to the transport, and the completion when the transport answers. *)
(* Hashes and signatures are symbolic: keccak(x) is the record             *)
(* [keccak |-> x], a signature records who signed what under which domain. *)
(* The signing functions and the order conversions are called here but     *)
(* defined elsewhere in the crate.  sign_l1_action is called with the      *)
(* wallet and the hash alone, so the Agent domain and the source tag it    *)
(* signs under are one fixed choice of the build, the same for every call  *)
(* and every base URL: l1_domain, any of the Agent domains of agent.rs.    *)
(***************************************************************************)
EXTENDS Integers, Sequences, FiniteSets, TLC

VARIABLES http_client, wallet, meta, vault_address, coin_to_asset, now, calls,
          construction, l1_domain

vars == <<http_client, wallet, meta, vault_address, coin_to_asset, now, calls,
          construction, l1_domain>>

\* ------------------------------------------------------------------ bounds
MaxUniverse == 2      \* longest instrument universe
MaxBatch == 2         \* longest order / cancel batch
MaxClock == 1         \* the clock runs from 0 to MaxClock milliseconds

\* ------------------------------------------------------- values and inputs
None == <<>>
Some(x) == <<x>>
IsSome(o) == Len(o) = 1

\* symbols the exchange may list, and one it never lists
Symbols == {"BTC", "ETH"}
RequestSymbols == Symbols \cup {"DOGE"}
Oids == {7, 8}
Prices == {100}
Sizes == {1}
Leverages == {5}
\* the decimal literal digits * 10^exp10 (digits below 2^31, at most 9 decimal
\* places) a caller writes for an f64 argument, and the f64 values NaN, infinity
Decimal(neg, digits, exp10) ==
    [class |-> "decimal", neg |-> neg, digits |-> digits, exp10 |-> exp10]
NaN == [class |-> "nan", neg |-> FALSE]
Infinity(neg) == [class |-> "inf", neg |-> neg]
UsdAmounts == {"1"}
Destinations == {"0xdest"}
\* 32-byte keys the random source can return; 0 is not a valid secp256k1 key
Keys == {0, 1, 2}
\* a LocalWallet is its private key
MainWallet == [private_key |-> 99]
BaseUrls == {None, Some("https://api.hyperliquid.xyz"),
             Some("https://api.hyperliquid-testnet.xyz")}
VaultAddresses == {None, Some(77)}
\* faults an individual call can meet in a fallible step before the post
Faults == {"none", "encode", "sign", "serialize"}
AgentFaults == Faults \cup {"keygen"}
\* what InfoClient::new and InfoClient::meta answer when new has to fetch
InfoOutcomes == {"ok", "error"}
MetaFailures == {"timeout"}
\* what the transport collaborator answers
TransportOutcomes == {"ok", "rejected", "badbody", "timeout", "non2xx"}

RECURSIVE SeqsUpTo(_, _)
SeqsUpTo(S, n) ==
    IF n = 0 THEN {<<>>}
    ELSE LET shorter == SeqsUpTo(S, n - 1)
         IN shorter \cup {Append(s, x) : s \in {t \in shorter : Len(t) = n - 1}, x \in S}

Unique(s) == \A i, j \in 1..Len(s) : i # j => s[i] # s[j]

\* the exchange's published universes: ordered lists of unique symbols
Universes == {u \in SeqsUpTo(Symbols, MaxUniverse) : Unique(u)}
Metas(universes) == {[universe |-> u] : u \in universes}
\* the meta argument of new: given, or absent
MetaArguments(universes) == {None} \cup {Some(m) : m \in Metas(universes)}

\* a resting buy without client order id and an immediate sell with one
\* (order-type parameters: the time in force), on every symbol
OrderTerms ==
    {[is_buy |-> TRUE, order_type |-> "Gtc", cloid |-> None],
     [is_buy |-> FALSE, order_type |-> "Ioc", cloid |-> Some(42)]}
ClientOrderRequests ==
    {[asset |-> a, is_buy |-> t.is_buy, limit_px |-> px, sz |-> sz,
      order_type |-> t.order_type, cloid |-> t.cloid] :
        a \in RequestSymbols, t \in OrderTerms, px \in Prices, sz \in Sizes}
ClientCancelRequests == [asset : RequestSymbols, oid : Oids]
OrderBatches == SeqsUpTo(ClientOrderRequests, MaxBatch)
CancelBatches == SeqsUpTo(ClientCancelRequests, MaxBatch)

\* ------------------------------------------------------------- constants
MAINNET_API_URL == "https://api.hyperliquid.xyz"
ZeroAddress == 0
L1ChainId == 1337
MainnetChainId == 42161
TestnetChainId == 421613
AgentSource == "https://hyperliquid.xyz"

Ok(v) == [ok |-> TRUE, val |-> v]
Err(k, m) == [ok |-> FALSE, kind |-> k, msg |-> m]

unwrap_or_default(o) == IF IsSome(o) THEN o[1] ELSE ZeroAddress

keccak(x) == [keccak |-> x]

\* H256 -> LocalWallet -> address: one address per valid key
AddressOf(key) == 1000 + key
ValidKey(key) == key # 0

\* ------------------------------------------------------- f64 and i64 values
\* An f64 is [class, neg] and, when finite and not zero, a mantissa m (binary
\* digits, most significant first, at most F64MantissaBits of them, starting
\* with 1) and the exponent e of its last digit: the value is m * 2^e.  An i64
\* is [neg, mag] with mag the binary digits of its magnitude.  The arithmetic
\* runs on digit sequences because the doubles do not fit a machine integer.
F64MantissaBits == 53
I64Bits == 64
MachineIntBits == 31

\* the binary digits of a machine integer n >= 0, most significant first
BitsOfInt(n) ==
    IF n = 0 THEN <<>>
    ELSE LET len == CHOOSE k \in 1..MachineIntBits : n \div 2^(k - 1) = 1
         IN [i \in 1..len |-> (n \div 2^(len - i)) % 2]

FixedBits(n, width) == [i \in 1..width |-> (n \div 2^(width - i)) % 2]

Zeros(n) == [i \in 1..n |-> 0]

\* digit i of a sequence, zero before its first digit
Bit(bits, i) == IF i >= 1 THEN bits[i] ELSE 0

\* the integer written by the four digits that end at position hi
Nibble(bits, hi) ==
    (Bit(bits, hi) + 2 * Bit(bits, hi - 1)) + (4 * Bit(bits, hi - 2) + 8 * Bit(bits, hi - 3))

LimbBits == 16

\* the integer written by the LimbBits digits that end at position hi
Limb(bits, hi) ==
    (Nibble(bits, hi) + 16 * Nibble(bits, hi - 4))
    + (256 * Nibble(bits, hi - 8) + 4096 * Nibble(bits, hi - 12))

RECURSIVE MulRec(_, _, _, _, _)
MulRec(bits, hi, k, carry, acc) ==
    IF hi = 0 THEN BitsOfInt(carry) \o acc
    ELSE LET lo == IF hi > LimbBits THEN hi - LimbBits + 1 ELSE 1
             t == Limb(bits, hi) * k + carry
             w == 2^(hi - lo + 1)
         IN MulRec(bits, lo - 1, k, t \div w, FixedBits(t % w, hi - lo + 1) \o acc)

\* bits * k for 0 < k < 2^(LimbBits - 1)
MulSmall(bits, k) == MulRec(bits, Len(bits), k, 0, <<>>)

MaxPow10 == 4

RECURSIVE Pow10Times(_, _)
Pow10Times(bits, x) ==
    IF x <= MaxPow10 THEN MulSmall(bits, 10^x)
    ELSE Pow10Times(MulSmall(bits, 10^MaxPow10), x - MaxPow10)

Increment(bits) ==
    LET len == Len(bits)
        zeros == {i \in 1..len : bits[i] = 0}
    IN IF zeros = {} THEN <<1>> \o Zeros(len)
       ELSE LET p == CHOOSE i \in zeros : \A j \in zeros : j <= i
            IN SubSeq(bits, 1, p - 1) \o <<1>> \o Zeros(len - p)

\* round-to-nearest, ties-to-even, of bits * 2^e (+ a nonzero tail when sticky)
RoundToF64(neg, bits, e, sticky) ==
    LET len == Len(bits)
    IN IF len = 0 THEN [class |-> "zero", neg |-> neg]
       ELSE IF len <= F64MantissaBits THEN [class |-> "finite", neg |-> neg, m |-> bits, e |-> e]
       ELSE LET kept == SubSeq(bits, 1, F64MantissaBits)
                guard == bits[F64MantissaBits + 1]
                tail == sticky \/ \E i \in (F64MantissaBits + 2)..len : bits[i] = 1
                up == guard = 1 /\ (tail \/ kept[F64MantissaBits] = 1)
                m == IF up THEN Increment(kept) ELSE kept
                e1 == e + (len - F64MantissaBits)
            IN IF Len(m) > F64MantissaBits
               THEN [class |-> "finite", neg |-> neg, m |-> SubSeq(m, 1, F64MantissaBits), e |-> e1 + 1]
               ELSE [class |-> "finite", neg |-> neg, m |-> m, e |-> e1]

\* how many digits one step of the long division by d yields without leaving the
\* machine integers
DivChunk(d) == MachineIntBits - Len(BitsOfInt(d))

\* the first n binary digits of r / d after the point, 0 <= r < d < 2^30
RECURSIVE FracBits(_, _, _, _)
FracBits(r, d, n, acc) ==
    IF n = 0 THEN [bits |-> acc, r |-> r]
    ELSE LET c == IF n > DivChunk(d) THEN DivChunk(d) ELSE n
             t == r * 2^c
         IN FracBits(t % d, d, n - c, acc \o FixedBits(t \div d, c))

\* the zero binary digits right after the point of r / d, 0 < r < d
LeadingZeros(r, d) ==
    LET s == Len(BitsOfInt(d)) - Len(BitsOfInt(r))
    IN IF s > 0 /\ r * 2^s >= d THEN s - 1 ELSE s

\* the f64 nearest to the decimal literal digits * 10^exp10
ParseF64(a) ==
    IF a.class # "decimal" THEN a
    ELSE IF a.digits = 0 THEN [class |-> "zero", neg |-> a.neg]
    ELSE IF a.exp10 >= 0
    THEN RoundToF64(a.neg, Pow10Times(BitsOfInt(a.digits), a.exp10), 0, FALSE)
    ELSE LET d == 10^(-a.exp10)
             int == BitsOfInt(a.digits \div d)
             r == a.digits % d
             z == IF int = <<>> THEN LeadingZeros(r, d) ELSE 0
             n == (F64MantissaBits + 1) - Len(int)
             f == FracBits(r * 2^z, d, n, <<>>)
         IN RoundToF64(a.neg, int \o f.bits, -(z + n), f.r # 0)

\* 1_000_000.0
MarginScale == ParseF64(Decimal(FALSE, 1000000, 0))

\* f64 margin amounts: 1.234567, 0.0000001, -2.5000004, 0.0001245 (whose product
\* with 1_000_000.0 falls just below 124.5), 1e13 and -1e13 (beyond i64), NaN
Amounts ==
    {ParseF64(Decimal(FALSE, 1234567, -6)), ParseF64(Decimal(FALSE, 1, -7)),
     ParseF64(Decimal(TRUE, 25000004, -7)), ParseF64(Decimal(FALSE, 1245, -7)),
     ParseF64(Decimal(FALSE, 1, 13)), ParseF64(Decimal(TRUE, 1, 13)), NaN}
\* 0.0000001 alone
TinyAmounts == {ParseF64(Decimal(FALSE, 1, -7))}

\* x * y in f64, for a y of fewer than LimbBits significant binary digits
MulF64(x, y) ==
    CASE x.class = "nan" \/ y.class = "nan" -> NaN
      [] x.class = "inf" \/ y.class = "inf" ->
           IF x.class = "zero" \/ y.class = "zero" THEN NaN ELSE Infinity(x.neg # y.neg)
      [] x.class = "zero" \/ y.class = "zero" -> [class |-> "zero", neg |-> x.neg # y.neg]
      [] OTHER ->
           LET last == CHOOSE i \in 1..Len(y.m) :
                           y.m[i] = 1 /\ \A j \in (i + 1)..Len(y.m) : y.m[j] = 0
           IN RoundToF64(x.neg # y.neg, MulSmall(x.m, Limb(y.m, last)),
                         x.e + y.e + (Len(y.m) - last), FALSE)

\* f64::round: to the nearest integer, halves away from zero
RoundF64(x) ==
    IF x.class # "finite" \/ x.e >= 0 THEN x
    ELSE LET len == Len(x.m)
             f == -x.e
         IN IF f > len THEN [class |-> "zero", neg |-> x.neg]
            ELSE LET int == SubSeq(x.m, 1, len - f)
                     half == x.m[len - f + 1]
                 IN [class |-> "finite", neg |-> x.neg,
                     m |-> IF half = 1 THEN Increment(int) ELSE int, e |-> 0]

I64Max == [neg |-> FALSE, mag |-> [i \in 1..(I64Bits - 1) |-> 1]]
I64Min == [neg |-> TRUE, mag |-> <<1>> \o Zeros(I64Bits - 1)]
I64Zero == [neg |-> FALSE, mag |-> <<>>]

\* `as i64` on an integral f64: saturating, NaN to 0
AsI64(x) ==
    CASE x.class = "nan" -> I64Zero
      [] x.class = "zero" -> I64Zero
      [] x.class = "inf" -> IF x.neg THEN I64Min ELSE I64Max
      [] OTHER ->
           LET mag == x.m \o Zeros(x.e)
           IN IF Len(mag) >= I64Bits THEN (IF x.neg THEN I64Min ELSE I64Max)
              ELSE [neg |-> x.neg, mag |-> mag]

\* the i64 of a small integer, for reading values
I64(n) == [neg |-> n < 0, mag |-> BitsOfInt(IF n < 0 THEN -n ELSE n)]

\* ---------------------------------------------------------------- signing
\* network selection by equality with the mainnet URL: <<chain, l1_name>>
select_chain(base_url) ==
    IF base_url = MAINNET_API_URL
    THEN <<"HyperliquidMainnet", "Arbitrum">>
    ELSE <<"HyperliquidTestnet", "ArbitrumGoerli">>

\* chain id of the Agent typed-data domain of each per-chain module
AgentChainId(chain) ==
    CASE chain = "Dev" -> L1ChainId
      [] chain = "HyperliquidMainnet" -> MainnetChainId
      [] chain = "HyperliquidTestnet" -> TestnetChainId

sign_typed_data(signer, chain_id, struct, msg) ==
    [signer |-> signer, chain_id |-> chain_id, struct |-> struct, msg |-> msg]

sign_with_agent(signer, chain, source, connection_id) ==
    sign_typed_data(signer, AgentChainId(chain), "Agent",
                    [source |-> source, connection_id |-> connection_id])

\* the Agent domains of agent.rs (l1, mainnet, testnet), each with a network tag
L1Domains ==
    {[chain |-> "Dev", source |-> "a"],
     [chain |-> "HyperliquidMainnet", source |-> "a"],
     [chain |-> "HyperliquidTestnet", source |-> "b"]}

\* takes the wallet and the hash only: whichever Agent domain and network tag it
\* signs under, they cannot depend on the base URL
sign_l1_action(signer, connection_id) ==
    sign_with_agent(signer, l1_domain.chain, l1_domain.source, connection_id)

sign_usd_transfer_action(signer, chain, amount, destination, timestamp) ==
    sign_typed_data(signer,
                    IF chain = "HyperliquidMainnet" THEN MainnetChainId ELSE TestnetChainId,
                    "HyperliquidTransaction:UsdTransfer",
                    [destination |-> destination, amount |-> amount, time |-> timestamp])

\* ------------------------------------------------------------ call records
\* What one call of a public operation has done so far.
\*   input        the arguments of the call
\*   steps        the steps executed, in order (the last one is the failing one
\*                when the call failed)
\*   clock_reads  the values now_timestamp_ms() returned to this call, in order
\*   hashed       the argument of keccak
\*   posted       the envelopes handed to the transport's post
\*   http         what the transport's post returned
\*   ret          what the call returned to its caller
Blank(api, op) ==
    [pc |-> "done", api |-> api, op |-> op, steps |-> <<>>, failed |-> None,
     clock_reads |-> <<>>, key |-> None, hashed |-> None, action |-> None,
     signature |-> None, posted |-> <<>>, http |-> None, ret |-> None,
     input |-> None]

Idle == [Blank("", "") EXCEPT !.pc = "idle"]

Step(r, step) == [r EXCEPT !.steps = Append(@, step)]
Fail(r, step, err) ==
    [r EXCEPT !.steps = Append(@, step), !.failed = Some(step), !.ret = Some(err),
              !.pc = "done"]

\* mutant: the envelope carries the zero address when no vault is configured
post_zero_vault(self, r, action, signature, nonce, fault) ==
    LET exchange_payload ==
            [action |-> action, signature |-> signature, nonce |-> nonce,
             vault_address |-> Some(unwrap_or_default(self.vault_address))]
    IN IF fault = "serialize"
       THEN Fail(r, "envelope", Err("JsonParse", "serialize"))
       ELSE [Step(Step(r, "envelope"), "submit") EXCEPT
                !.posted = Append(@, exchange_payload), !.pc = "posting"]

\* mutant: the envelope's nonce is not the timestamp the call read
post_stale_nonce(self, r, action, signature, nonce, fault) ==
    LET exchange_payload ==
            [action |-> action, signature |-> signature, nonce |-> 0,
             vault_address |-> self.vault_address]
    IN IF fault = "serialize"
       THEN Fail(r, "envelope", Err("JsonParse", "serialize"))
       ELSE [Step(Step(r, "envelope"), "submit") EXCEPT
                !.posted = Append(@, exchange_payload), !.pc = "posting"]

\* synchronous half of post: assemble and serialize the envelope, call the transport
post(self, r, action, signature, nonce, fault) ==
    LET exchange_payload ==
            [action |-> action, signature |-> signature, nonce |-> nonce,
             vault_address |-> self.vault_address]
    IN IF fault = "serialize"
       THEN Fail(r, "envelope", Err("JsonParse", "serialize"))
       ELSE [Step(Step(r, "envelope"), "submit") EXCEPT
                !.posted = Append(@, exchange_payload), !.pc = "posting"]

\* the transport collaborator: Ok(body) or its own error
HttpPost(outcome) ==
    IF outcome \in {"timeout", "non2xx"}
    THEN Err("TransportFailure", outcome)
    ELSE Ok(outcome)

\* ExchangeResponseStatus parsed from the body
ParseBody(body) ==
    CASE body = "ok" -> Ok([status |-> "ok"])
      [] body = "rejected" -> Ok([status |-> "err"])
      [] OTHER -> Err("JsonParse", "parse")

\* second half of post: the transport's answer, mapped and parsed
post_response(http) ==
    IF ~http.ok THEN Err("JsonParse", http.msg) ELSE ParseBody(http.val)

\* mutant: a signing failure is recorded but the action is posted all the same
encode_sign_post_despite_failure(self, r, action, connection_id, timestamp, fault) ==
    IF fault = "encode"
    THEN Fail(r, "encode", Err("JsonParse", "encode"))
    ELSE LET signature == sign_l1_action(self.wallet, connection_id)
             r2 == [Step(Step(r, "encode"), "sign") EXCEPT
                       !.action = Some(action), !.signature = Some(signature),
                       !.failed = IF fault = "sign" THEN Some("sign") ELSE None]
         IN post(self, r2, action, signature, timestamp, fault)

\* what every L1 operation does after hashing: encode the action, sign, post
encode_sign_post(self, r, action, connection_id, timestamp, fault) ==
    IF fault = "encode"
    THEN Fail(r, "encode", Err("JsonParse", "encode"))
    ELSE IF fault = "sign"
    THEN Fail([Step(r, "encode") EXCEPT !.action = Some(action)], "sign",
              Err("SigningFailure", "sign"))
    ELSE LET signature == sign_l1_action(self.wallet, connection_id)
             r2 == [Step(Step(r, "encode"), "sign") EXCEPT
                       !.action = Some(action), !.signature = Some(signature)]
         IN post(self, r2, action, signature, timestamp, fault)
\* ------------------------------------------------------- public operations
\* ClientOrderRequest::create_hashable_tuple and ::convert: both resolve the
\* order's symbol in the asset index and fail with AssetNotFound when absent.
\* The tuple holds asset index, side, price, size, order-type parameters and
\* the optional client order id, in this order; the converted order holds the
\* same fields by name.
create_hashable_tuple(order, index) ==
    IF order.asset \in DOMAIN index
    THEN Ok(<<index[order.asset], order.is_buy, order.limit_px, order.sz,
              order.order_type, order.cloid>>)
    ELSE Err("AssetNotFound", "")

convert(order, index) ==
    IF order.asset \in DOMAIN index
    THEN Ok([asset |-> index[order.asset], is_buy |-> order.is_buy,
             limit_px |-> order.limit_px, sz |-> order.sz,
             order_type |-> order.order_type, cloid |-> order.cloid])
    ELSE Err("AssetNotFound", "")

\* the loop of bulk_order: stops at the first order that fails to resolve
RECURSIVE order_loop(_, _, _, _, _)
order_loop(index, orders, i, hashable_tuples, transformed_orders) ==
    IF i > Len(orders)
    THEN [ok |-> TRUE, hashable_tuples |-> hashable_tuples,
          transformed |-> transformed_orders]
    ELSE LET tuple == create_hashable_tuple(orders[i], index)
             converted == convert(orders[i], index)
         IN IF ~tuple.ok THEN [ok |-> FALSE, err |-> tuple]
            ELSE IF ~converted.ok THEN [ok |-> FALSE, err |-> converted]
            ELSE order_loop(index, orders, i + 1,
                            Append(hashable_tuples, tuple.val),
                            Append(transformed_orders, converted.val))

bulk_order(self, api, orders, clock, fault) ==
    LET timestamp == clock
        vault == unwrap_or_default(self.vault_address)
        r0 == [Blank(api, "bulk_order") EXCEPT !.clock_reads = <<timestamp>>]
        res == order_loop(self.coin_to_asset, orders, 1, <<>>, <<>>)
    IN IF ~res.ok THEN Fail(r0, "resolve", res.err)
       ELSE LET input == <<res.hashable_tuples, 0, vault, timestamp>>
                connection_id == keccak(input)
                action == [type |-> "order", grouping |-> "na",
                           orders |-> res.transformed]
                r1 == [Step(Step(r0, "resolve"), "hash") EXCEPT !.hashed = Some(input)]
            IN encode_sign_post(self, r1, action, connection_id, timestamp, fault)

\* mutant: a cancel whose symbol is unknown is dropped and the rest is submitted
RECURSIVE cancel_loop_skipping(_, _, _, _, _)
cancel_loop_skipping(index, cancels, i, hashable_tuples, transformed_cancels) ==
    IF i > Len(cancels)
    THEN [ok |-> TRUE, hashable_tuples |-> hashable_tuples,
          transformed |-> transformed_cancels]
    ELSE LET cancel == cancels[i]
         IN IF cancel.asset \notin DOMAIN index
            THEN cancel_loop_skipping(index, cancels, i + 1, hashable_tuples,
                                      transformed_cancels)
            ELSE LET asset == index[cancel.asset]
                 IN cancel_loop_skipping(index, cancels, i + 1,
                                Append(hashable_tuples, <<asset, cancel.oid>>),
                                Append(transformed_cancels,
                                       [asset |-> asset, oid |-> cancel.oid]))

\* mutant: the hashable tuples are collected in the reverse of the submitted order
RECURSIVE cancel_loop_reversed(_, _, _, _, _)
cancel_loop_reversed(index, cancels, i, hashable_tuples, transformed_cancels) ==
    IF i > Len(cancels)
    THEN [ok |-> TRUE, hashable_tuples |-> hashable_tuples,
          transformed |-> transformed_cancels]
    ELSE LET cancel == cancels[i]
         IN IF cancel.asset \notin DOMAIN index
            THEN [ok |-> FALSE, err |-> Err("AssetNotFound", "")]
            ELSE LET asset == index[cancel.asset]
                 IN cancel_loop_reversed(index, cancels, i + 1,
                                <<(<<asset, cancel.oid>>)>> \o hashable_tuples,
                                Append(transformed_cancels,
                                       [asset |-> asset, oid |-> cancel.oid]))

\* the loop of bulk_cancel: stops at the first cancel whose symbol is unknown
RECURSIVE cancel_loop(_, _, _, _, _)
cancel_loop(index, cancels, i, hashable_tuples, transformed_cancels) ==
    IF i > Len(cancels)
    THEN [ok |-> TRUE, hashable_tuples |-> hashable_tuples,
          transformed |-> transformed_cancels]
    ELSE LET cancel == cancels[i]
         IN IF cancel.asset \notin DOMAIN index
            THEN [ok |-> FALSE, err |-> Err("AssetNotFound", "")]
            ELSE LET asset == index[cancel.asset]
                 IN cancel_loop(index, cancels, i + 1,
                                Append(hashable_tuples, <<asset, cancel.oid>>),
                                Append(transformed_cancels,
                                       [asset |-> asset, oid |-> cancel.oid]))

bulk_cancel(self, api, cancels, clock, fault) ==
    LET timestamp == clock
        vault == unwrap_or_default(self.vault_address)
        r0 == [Blank(api, "bulk_cancel") EXCEPT !.clock_reads = <<timestamp>>]
        res == cancel_loop(self.coin_to_asset, cancels, 1, <<>>, <<>>)
    IN IF ~res.ok THEN Fail(r0, "resolve", res.err)
       ELSE LET input == <<res.hashable_tuples, vault, timestamp>>
                connection_id == keccak(input)
                action == [type |-> "cancel", cancels |-> res.transformed]
                r1 == [Step(Step(r0, "resolve"), "hash") EXCEPT !.hashed = Some(input)]
            IN encode_sign_post(self, r1, action, connection_id, timestamp, fault)

order(self, o, clock, fault) == bulk_order(self, "order", <<o>>, clock, fault)

cancel(self, c, clock, fault) == bulk_cancel(self, "cancel", <<c>>, clock, fault)

\* mutant: the clock is read a second time for the nonce
update_leverage_rereading_clock(self, leverage, coin, is_cross, clock, fault) ==
    LET timestamp == clock
        vault == unwrap_or_default(self.vault_address)
        r0 == [Blank("update_leverage", "update_leverage") EXCEPT
                  !.clock_reads = <<timestamp>>]
    IN IF coin \notin DOMAIN self.coin_to_asset
       THEN Fail(r0, "resolve", Err("AssetNotFound", ""))
       ELSE LET asset_index == self.coin_to_asset[coin]
                input == <<asset_index, is_cross, leverage, vault, timestamp>>
                connection_id == keccak(input)
                action == [type |-> "updateLeverage", asset |-> asset_index,
                           is_cross |-> is_cross, leverage |-> leverage]
                r1 == [Step(Step(r0, "resolve"), "hash") EXCEPT
                          !.hashed = Some(input), !.clock_reads = <<timestamp, clock>>]
            IN encode_sign_post(self, r1, action, connection_id, clock, fault)

update_leverage(self, leverage, coin, is_cross, clock, fault) ==
    LET timestamp == clock
        vault == unwrap_or_default(self.vault_address)
        r0 == [Blank("update_leverage", "update_leverage") EXCEPT
                  !.clock_reads = <<timestamp>>]
    IN IF coin \notin DOMAIN self.coin_to_asset
       THEN Fail(r0, "resolve", Err("AssetNotFound", ""))
       ELSE LET asset_index == self.coin_to_asset[coin]
                input == <<asset_index, is_cross, leverage, vault, timestamp>>
                connection_id == keccak(input)
                action == [type |-> "updateLeverage", asset |-> asset_index,
                           is_cross |-> is_cross, leverage |-> leverage]
                r1 == [Step(Step(r0, "resolve"), "hash") EXCEPT !.hashed = Some(input)]
            IN encode_sign_post(self, r1, action, connection_id, timestamp, fault)

\* line 240 runs first: amount = (amount * 1_000_000.0).round() as i64 on the f64
\* argument is a value before the rest of the function uses it
update_isolated_margin(self, amount_f64, coin, clock, fault) ==
    LET rest(amount) ==
            LET timestamp == clock
                vault == unwrap_or_default(self.vault_address)
                r0 == [Blank("update_isolated_margin", "update_isolated_margin") EXCEPT
                          !.clock_reads = <<timestamp>>]
            IN IF coin \notin DOMAIN self.coin_to_asset
               THEN Fail(r0, "resolve", Err("AssetNotFound", ""))
               ELSE LET asset_index == self.coin_to_asset[coin]
                        input == <<asset_index, TRUE, amount, vault, timestamp>>
                        connection_id == keccak(input)
                        action == [type |-> "updateIsolatedMargin", asset |-> asset_index,
                                   is_buy |-> TRUE, ntli |-> amount]
                        r1 == [Step(Step(r0, "resolve"), "hash") EXCEPT
                                  !.hashed = Some(input)]
                    IN encode_sign_post(self, r1, action, connection_id, timestamp, fault)
    IN CHOOSE r \in {rest(amount) :
                       amount \in {AsI64(RoundF64(MulF64(amount_f64, MarginScale)))}} : TRUE

usdc_transfer(self, amount, destination, clock, fault) ==
    LET sel == select_chain(self.base_url)
        chain == sel[1]
        l1_name == sel[2]
        timestamp == clock
        r0 == [Blank("usdc_transfer", "usdc_transfer") EXCEPT
                  !.clock_reads = <<timestamp>>]
        payload == [destination |-> destination, amount |-> amount, time |-> timestamp]
        action == [type |-> "usdTransfer", chain |-> l1_name, payload |-> payload]
    IN IF fault = "encode"
       THEN Fail(r0, "encode", Err("JsonParse", "encode"))
       ELSE IF fault = "sign"
       THEN Fail([Step(r0, "encode") EXCEPT !.action = Some(action)], "sign",
                 Err("SigningFailure", "sign"))
       ELSE LET signature == sign_usd_transfer_action(self.wallet, chain, amount,
                                                      destination, timestamp)
                r2 == [Step(Step(r0, "encode"), "sign") EXCEPT
                          !.action = Some(action), !.signature = Some(signature)]
            IN post(self, r2, action, signature, timestamp, fault)

\* H256::encode_hex()[2..]: the key as a hex string, and its parse as a wallet
EncodeHex(k) == [hex |-> k]
ParseWallet(s) ==
    IF ValidKey(s.hex) THEN Ok([private_key |-> s.hex]) ELSE Err("PrivateKeyParse", "key")

\* mutant: the Agent structure is signed with the generated agent key
approve_agent_signed_by_agent(self, random_key, clock, fault) ==
    LET r0 == Blank("approve_agent", "approve_agent")
    IN IF fault = "keygen"
       THEN Fail(r0, "keygen", Err("KeyGenerationFailure", "rand"))
       ELSE LET key == EncodeHex(random_key)
                parsed == ParseWallet(key)
                r1 == [Step(r0, "keygen") EXCEPT !.key = Some(key)]
            IN IF ~parsed.ok THEN Fail(r1, "derive", parsed)
               ELSE LET address == AddressOf(parsed.val.private_key)
                        connection_id == keccak(address)
                        sel == select_chain(self.base_url)
                        chain == sel[1]
                        l1_name == sel[2]
                        source == AgentSource
                        action == [type |-> "connect", chain |-> l1_name,
                                   agent |-> [source |-> source,
                                              connection_id |-> connection_id],
                                   agent_address |-> address]
                        r2 == [Step(Step(r1, "derive"), "hash") EXCEPT
                                  !.hashed = Some(address)]
                    IN IF fault = "encode"
                       THEN Fail(r2, "encode", Err("JsonParse", "encode"))
                       ELSE IF fault = "sign"
                       THEN Fail([Step(r2, "encode") EXCEPT !.action = Some(action)],
                                 "sign", Err("SigningFailure", "sign"))
                       ELSE LET signature == sign_with_agent(parsed.val, chain, source,
                                                             connection_id)
                                timestamp == clock
                                r3 == [Step(Step(r2, "encode"), "sign") EXCEPT
                                          !.action = Some(action),
                                          !.signature = Some(signature),
                                          !.clock_reads = <<timestamp>>]
                            IN post(self, r3, action, signature, timestamp, fault)

\* random_key is what generate_random_key() returns when it does not fail
approve_agent(self, random_key, clock, fault) ==
    LET r0 == Blank("approve_agent", "approve_agent")
    IN IF fault = "keygen"
       THEN Fail(r0, "keygen", Err("KeyGenerationFailure", "rand"))
       ELSE LET key == EncodeHex(random_key)
                parsed == ParseWallet(key)
                r1 == [Step(r0, "keygen") EXCEPT !.key = Some(key)]
            IN IF ~parsed.ok THEN Fail(r1, "derive", parsed)
               ELSE LET address == AddressOf(parsed.val.private_key)
                        connection_id == keccak(address)
                        sel == select_chain(self.base_url)
                        chain == sel[1]
                        l1_name == sel[2]
                        source == AgentSource
                        action == [type |-> "connect", chain |-> l1_name,
                                   agent |-> [source |-> source,
                                              connection_id |-> connection_id],
                                   agent_address |-> address]
                        r2 == [Step(Step(r1, "derive"), "hash") EXCEPT
                                  !.hashed = Some(address)]
                    IN IF fault = "encode"
                       THEN Fail(r2, "encode", Err("JsonParse", "encode"))
                       ELSE IF fault = "sign"
                       THEN Fail([Step(r2, "encode") EXCEPT !.action = Some(action)],
                                 "sign", Err("SigningFailure", "sign"))
                       ELSE LET signature == sign_with_agent(self.wallet, chain, source,
                                                             connection_id)
                                timestamp == clock
                                r3 == [Step(Step(r2, "encode"), "sign") EXCEPT
                                          !.action = Some(action),
                                          !.signature = Some(signature),
                                          !.clock_reads = <<timestamp>>]
                            IN post(self, r3, action, signature, timestamp, fault)

\* the value a call returns once post has returned
finish(r, posted_result) ==
    IF r.op = "approve_agent" /\ posted_result.ok
    THEN Ok(<<r.key[1], posted_result.val>>)
    ELSE posted_result

\* ------------------------------------------------------------ construction
\* mutant: indices are assigned from 1
RECURSIVE insert_all_one_based(_, _, _)
insert_all_one_based(universe, i, map) ==
    IF i > Len(universe) THEN map
    ELSE LET name == universe[i]
             asset_ind == i
         IN insert_all_one_based(universe, i + 1,
                       [k \in (DOMAIN map) \cup {name} |->
                           IF k = name THEN asset_ind ELSE map[k]])

\* the loop of new: enumerate the universe, insert name -> position
RECURSIVE insert_all(_, _, _)
insert_all(universe, i, map) ==
    IF i > Len(universe) THEN map
    ELSE LET name == universe[i]
             asset_ind == i - 1
         IN insert_all(universe, i + 1,
                       [k \in (DOMAIN map) \cup {name} |->
                           IF k = name THEN asset_ind ELSE map[k]])

EmptyMap == [k \in {} |-> 0]

\* InfoClient::new(None, Some(base_url)): completes without suspending
InfoClientNew(outcome, base_url) ==
    IF outcome = "ok"
    THEN Ok([base_url |-> IF IsSome(base_url) THEN base_url[1] ELSE MAINNET_API_URL])
    ELSE Err("GenericRequest", outcome)

\* InfoClient::meta: the metadata service's answer, or the transport's error
InfoMetaAnswers(universes) ==
    {Ok(m) : m \in Metas(universes)} \cup {Err("MetaFetch", f) : f \in MetaFailures}

\* a call of new that has not run yet
Called(args) == [pc |-> "called", args |-> Some(args), info |-> None, ret |-> None]
\* new returned Err: no client
Failed(error) == [pc |-> "failed", args |-> None, info |-> None, ret |-> Some(error)]

\* the loop over the universe and the client new returns
Built(args, base_url, m) ==
    [pc |-> "built", args |-> None, info |-> None,
     ret |-> Some(Ok([wallet |-> args.wallet,
                      meta |-> m,
                      vault_address |-> args.vault_address,
                      http_client |-> [base_url |-> base_url],
                      coin_to_asset |-> insert_all(m.universe, 1, EmptyMap)]))]

\* new from its call to its return or to its suspension on info.meta()
new(args, info_outcome) ==
    LET base_url == IF IsSome(args.base_url) THEN args.base_url[1] ELSE MAINNET_API_URL
    IN IF IsSome(args.meta)
       THEN Built(args, base_url, args.meta[1])
       ELSE LET info == InfoClientNew(info_outcome, Some(base_url))
            IN IF ~info.ok THEN Failed(info)
               ELSE [pc |-> "fetching", args |-> Some(args), info |-> Some(info.val),
                     ret |-> None]

\* new resumed by the answer of info.meta()
new_resumed(suspended, answer) ==
    IF ~answer.ok THEN Failed(answer)
    ELSE Built(suspended.args[1], suspended.info[1].base_url, answer.val)

IsBuilt == construction.pc = "built"

Self ==
    [base_url |-> http_client.base_url, wallet |-> wallet,
     vault_address |-> vault_address, coin_to_asset |-> coin_to_asset]

InitClient(slots, urls, metas, vaults) ==
    \E base_url \in urls, m \in metas, vault \in vaults :
        /\ construction = Called([wallet |-> MainWallet, base_url |-> base_url,
                                  meta |-> m, vault_address |-> vault])
        /\ http_client = None
        /\ wallet = None
        /\ meta = None
        /\ vault_address = None
        /\ coin_to_asset = None
        /\ now = 0
        /\ calls = [c \in slots |-> Idle]
        /\ l1_domain \in L1Domains

\* new has just been called, with any arguments; one call slot, every input
Init == InitClient({1}, BaseUrls, MetaArguments(Universes), VaultAddresses)

\* ----------------------------------------------------------------- actions
ClientFields == <<http_client, wallet, meta, vault_address, coin_to_asset>>
Client == <<ClientFields, construction, l1_domain>>

\* new has returned or suspended: the caller holds the client once it is built
Returned(c) ==
    /\ construction' = [c EXCEPT !.ret = IF c.pc = "built" THEN Some(Ok("ExchangeClient"))
                                                             ELSE @]
    /\ IF c.pc = "built"
       THEN LET client == c.ret[1].val
            IN /\ http_client' = client.http_client
               /\ wallet' = client.wallet
               /\ meta' = client.meta
               /\ vault_address' = client.vault_address
               /\ coin_to_asset' = client.coin_to_asset
       ELSE UNCHANGED ClientFields
    /\ UNCHANGED <<now, calls, l1_domain>>

\* the first poll of new
New(info_outcomes) ==
    /\ construction.pc = "called"
    /\ \E info_outcome \in info_outcomes : Returned(new(construction.args[1], info_outcome))

\* the metadata fetch answers and new runs to its end
MetaAnswered(answers) ==
    /\ construction.pc = "fetching"
    /\ \E answer \in answers : Returned(new_resumed(construction, answer))

Begin(c, input, r) ==
    /\ calls[c].pc = "idle"
    /\ calls' = [calls EXCEPT ![c] = [r EXCEPT !.input = Some(input)]]
    /\ UNCHANGED <<Client, now>>

CallUsdcTransfer(faults) ==
    \E c \in DOMAIN calls :
        /\ IsBuilt
        /\ calls[c].pc = "idle"
        /\ \E amount \in UsdAmounts, destination \in Destinations, fault \in faults :
              Begin(c, [amount |-> amount, destination |-> destination],
                 usdc_transfer(Self, amount, destination, now, fault))

CallOrder(requests, faults) ==
    \E c \in DOMAIN calls :
        /\ IsBuilt
        /\ calls[c].pc = "idle"
        /\ \E o \in requests, fault \in faults :
              Begin(c, [requests |-> <<o>>], order(Self, o, now, fault))

CallBulkOrder(batches, faults) ==
    \E c \in DOMAIN calls :
        /\ IsBuilt
        /\ calls[c].pc = "idle"
        /\ \E orders \in batches, fault \in faults :
              Begin(c, [requests |-> orders], bulk_order(Self, "bulk_order", orders, now, fault))

CallCancel(requests, faults) ==
    \E c \in DOMAIN calls :
        /\ IsBuilt
        /\ calls[c].pc = "idle"
        /\ \E cn \in requests, fault \in faults :
              Begin(c, [requests |-> <<cn>>], cancel(Self, cn, now, fault))

CallBulkCancel(batches, faults) ==
    \E c \in DOMAIN calls :
        /\ IsBuilt
        /\ calls[c].pc = "idle"
        /\ \E cancels \in batches, fault \in faults :
              Begin(c, [requests |-> cancels], bulk_cancel(Self, "bulk_cancel", cancels, now, fault))

CallUpdateLeverage(coins, faults) ==
    \E c \in DOMAIN calls :
        /\ IsBuilt
        /\ calls[c].pc = "idle"
        /\ \E leverage \in Leverages, coin \in coins, is_cross \in BOOLEAN, fault \in faults :
              Begin(c, [leverage |-> leverage, coin |-> coin, is_cross |-> is_cross],
                 update_leverage(Self, leverage, coin, is_cross, now, fault))

CallUpdateIsolatedMargin(amounts, coins, faults) ==
    \E c \in DOMAIN calls :
        /\ IsBuilt
        /\ calls[c].pc = "idle"
        /\ \E amount \in amounts, coin \in coins, fault \in faults :
              Begin(c, [amount |-> amount, coin |-> coin],
                 update_isolated_margin(Self, amount, coin, now, fault))

CallApproveAgent(keys, faults) ==
    \E c \in DOMAIN calls :
        /\ IsBuilt
        /\ calls[c].pc = "idle"
        /\ \E random_key \in keys, fault \in faults :
              Begin(c, [random_key |-> random_key], approve_agent(Self, random_key, now, fault))

\* the transport answers a pending post; the call maps, parses and returns
Respond(outcomes) ==
    \E c \in DOMAIN calls, outcome \in outcomes :
        /\ calls[c].pc = "posting"
        /\ LET http == HttpPost(outcome)
               result == post_response(http)
               r == calls[c]
           IN calls' = [calls EXCEPT ![c] =
                 [r EXCEPT !.pc = "done",
                           !.http = Some(http),
                           !.steps = IF http.ok THEN Append(@, "parse") ELSE @,
                           !.failed = IF result.ok THEN None
                                      ELSE IF http.ok THEN Some("parse")
                                      ELSE Some("submit"),
                           !.ret = Some(finish(r, result))]]
        /\ UNCHANGED <<Client, now>>

\* a millisecond passes on the wall clock
Tick ==
    /\ now < MaxClock
    /\ now' = now + 1
    /\ UNCHANGED <<Client, calls>>

Next ==
    \/ New(InfoOutcomes)
    \/ MetaAnswered(InfoMetaAnswers(Universes))
    \/ CallUsdcTransfer(Faults)
    \/ CallOrder(ClientOrderRequests, Faults)
    \/ CallBulkOrder(OrderBatches, Faults)
    \/ CallCancel(ClientCancelRequests, Faults)
    \/ CallBulkCancel(CancelBatches, Faults)
    \/ CallUpdateLeverage(RequestSymbols, Faults)
    \/ CallUpdateIsolatedMargin(Amounts, RequestSymbols, Faults)
    \/ CallApproveAgent(Keys, AgentFaults)
    \/ Respond(TransportOutcomes)
    \/ Tick

Spec == Init /\ [][Next]_vars

\* ------------------------------------------------ two calls on one client
\* Two calls share the client (&self) and may both be in flight.  The inputs
\* are one representative per operation; the clock and the interleaving vary.
TwoCalls == {1, 2}
OneOrder == [asset |-> "BTC", is_buy |-> TRUE, limit_px |-> 100, sz |-> 1,
             order_type |-> "Gtc", cloid |-> None]
OneCancel == [asset |-> "BTC", oid |-> 7]

InitConcurrent ==
    InitClient(TwoCalls, BaseUrls, MetaArguments({<<"BTC">>}), VaultAddresses)

NextConcurrent ==
    \/ New(InfoOutcomes)
    \/ MetaAnswered(InfoMetaAnswers({<<"BTC">>}))
    \/ CallUsdcTransfer({"none"})
    \/ CallOrder({OneOrder}, {"none"})
    \/ CallBulkOrder({<<>>, <<OneOrder, OneOrder>>}, {"none"})
    \/ CallCancel({OneCancel}, {"none"})
    \/ CallBulkCancel({<<>>, <<OneCancel, OneCancel>>}, {"none"})
    \/ CallUpdateLeverage({"BTC"}, {"none"})
    \/ CallUpdateIsolatedMargin(TinyAmounts, {"BTC", "ETH"}, {"none"})
    \/ CallApproveAgent({1}, {"none", "sign"})
    \/ Respond({"ok", "timeout"})
    \/ Tick

SpecConcurrent == InitConcurrent /\ [][NextConcurrent]_vars
\* ==================================================================== claims
L1Ops == {"bulk_order", "bulk_cancel", "update_leverage", "update_isolated_margin"}
BulkOps == {"bulk_order", "bulk_cancel"}
Invoked(r) == r.pc # "idle"
Submitted(r) == Len(r.posted) >= 1
Envelope(r) == r.posted[1]
IsErr(r, kind) == IsSome(r.ret) /\ ~r.ret[1].ok /\ r.ret[1].kind = kind
Resolvable(symbol) == symbol \in DOMAIN coin_to_asset
Last(s) == s[Len(s)]

\* C1: a bulk order or bulk cancel (or its single-item wrapper) in which any
\* request, at any position, names a symbol absent from the asset index returns
\* AssetNotFound and never invokes the transport's post.
C1_UnresolvedBatchNotSubmitted ==
    \A c \in DOMAIN calls :
        LET r == calls[c]
        IN (/\ r.op \in BulkOps
            /\ \E i \in 1..Len(r.input[1].requests) :
                  ~Resolvable(r.input[1].requests[i].asset))
           => /\ r.pc = "done"
              /\ IsErr(r, "AssetNotFound")
              /\ r.posted = <<>>
              /\ "submit" \notin {r.steps[i] : i \in 1..Len(r.steps)}

\* a two-item cancel batch whose first item resolves and whose second does not
C1_Witness ==
    \E c \in DOMAIN calls :
        LET r == calls[c]
        IN /\ r.op = "bulk_cancel"
           /\ r.api = "bulk_cancel"
           /\ Len(r.input[1].requests) = 2
           /\ Resolvable(r.input[1].requests[1].asset)
           /\ ~Resolvable(r.input[1].requests[2].asset)
           /\ IsErr(r, "AssetNotFound")

\* what an independent verifier recomputes as hash input from the envelope alone
VerifierInput(envelope) ==
    LET a == envelope.action
        vault == unwrap_or_default(envelope.vault_address)
    IN CASE a.type = "order" ->
              <<[i \in 1..Len(a.orders) |->
                    <<a.orders[i].asset, a.orders[i].is_buy, a.orders[i].limit_px,
                      a.orders[i].sz, a.orders[i].order_type, a.orders[i].cloid>>],
                0, vault, envelope.nonce>>
         [] a.type = "cancel" ->
              <<[i \in 1..Len(a.cancels) |-> <<a.cancels[i].asset, a.cancels[i].oid>>],
                vault, envelope.nonce>>
         [] a.type = "updateLeverage" ->
              <<a.asset, a.is_cross, a.leverage, vault, envelope.nonce>>
         [] a.type = "updateIsolatedMargin" ->
              <<a.asset, a.is_buy, a.ntli, vault, envelope.nonce>>

SubmittedList(a) == IF a.type = "order" THEN a.orders ELSE a.cancels

\* C2: for every submitted L1 action the hash input the client hashed and signed
\* is the one a verifier recomputes from the envelope; the hashed and submitted
\* lists have the length and order of the input requests, entry i carrying the
\* asset index request i resolves to and the request's own fields.
C2_VerifierRecomputesHashInput ==
    \A c \in DOMAIN calls :
        LET r == calls[c]
        IN (r.op \in L1Ops /\ Submitted(r))
           => /\ r.hashed = Some(VerifierInput(Envelope(r)))
              /\ r.signature[1].msg.connection_id = keccak(VerifierInput(Envelope(r)))
              /\ Envelope(r).signature = r.signature[1]
              /\ r.op \in BulkOps =>
                    LET requests == r.input[1].requests
                        hashed == r.hashed[1][1]
                        sent == SubmittedList(Envelope(r).action)
                    IN /\ Len(hashed) = Len(requests)
                       /\ Len(sent) = Len(requests)
                       /\ \A i \in 1..Len(requests) :
                             /\ hashed[i][1] = coin_to_asset[requests[i].asset]
                             /\ sent[i].asset = coin_to_asset[requests[i].asset]
                             /\ r.op = "bulk_cancel" =>
                                   /\ hashed[i][2] = requests[i].oid
                                   /\ sent[i].oid = requests[i].oid
                             /\ r.op = "bulk_order" =>
                                   /\ hashed[i][2] = requests[i].is_buy
                                   /\ sent[i].is_buy = requests[i].is_buy
                                   /\ hashed[i][5] = requests[i].order_type
                                   /\ sent[i].order_type = requests[i].order_type
                                   /\ hashed[i][6] = requests[i].cloid
                                   /\ sent[i].cloid = requests[i].cloid

\* a submitted cancel batch of two different requests
C2_Witness ==
    \E c \in DOMAIN calls :
        LET r == calls[c]
        IN /\ r.op = "bulk_cancel"
           /\ Submitted(r)
           /\ Len(r.input[1].requests) = 2
           /\ r.input[1].requests[1].asset # r.input[1].requests[2].asset
           /\ r.input[1].requests[1].oid # r.input[1].requests[2].oid
\* the timestamp inside the data a signature covers, if there is one: the time
\* field of a USD transfer, the last field of the hash input of an L1 action
SignedTime(sig) ==
    IF sig.struct = "HyperliquidTransaction:UsdTransfer" THEN Some(sig.msg.time)
    ELSE IF sig.msg.source # AgentSource THEN Some(Last(sig.msg.connection_id.keccak))
    ELSE None

ReadOnceBothRoles(r) ==
    /\ Len(r.clock_reads) = 1
    /\ Submitted(r) => Envelope(r).nonce = r.clock_reads[1]
    /\ IsSome(r.signature) => SignedTime(r.signature[1]) = Some(r.clock_reads[1])

\* C3 as stated: every public operation reads the clock exactly once per call,
\* and the reading is both the envelope's nonce and the timestamp field of the
\* hashed and signed data.
C3_ClockReadOnceBothRoles ==
    \A c \in DOMAIN calls : Invoked(calls[c]) => ReadOnceBothRoles(calls[c])

\* C3 amended: that holds of usdc_transfer and of the four L1 operations; in
\* approve_agent the clock is read at most once, exactly when signing has
\* succeeded, the reading is the envelope's nonce only, and the signed Agent
\* structure carries no timestamp.
C3_ClockReadOncePerOperation ==
    \A c \in DOMAIN calls :
        LET r == calls[c]
        IN Invoked(r) =>
              IF r.op # "approve_agent" THEN ReadOnceBothRoles(r)
              ELSE /\ Len(r.clock_reads) <= 1
                   /\ Len(r.clock_reads) = 1 <=> IsSome(r.signature)
                   /\ Submitted(r) => Envelope(r).nonce = r.clock_reads[1]
                   /\ IsSome(r.signature) => SignedTime(r.signature[1]) = None

\* an agent approval submitted at clock reading 1
C3_Witness ==
    \E c \in DOMAIN calls :
        LET r == calls[c]
        IN r.op = "approve_agent" /\ Submitted(r) /\ r.clock_reads = <<1>>

SignedOps == L1Ops \cup {"usdc_transfer"}

\* C4 as stated: with the mainnet base URL both L1 actions and USD transfer are
\* signed under chain id 42161, with any other base URL under another chain id.
\* An L1 signature has the chain id of l1_domain whatever the base URL, so for
\* each Agent domain there is a base URL with which this fails.
C4_DomainFollowsBaseUrl ==
    \A c \in DOMAIN calls :
        LET r == calls[c]
        IN (r.op \in SignedOps /\ IsSome(r.signature)) =>
              IF http_client.base_url = MAINNET_API_URL
              THEN r.signature[1].chain_id = MainnetChainId
              ELSE r.signature[1].chain_id # MainnetChainId

\* C5 as stated: when the transport's post fails, the caller receives the
\* transport's own error, of a kind other than the encoding failure.
C5_TransportFailureUnmodified ==
    \A c \in DOMAIN calls :
        LET r == calls[c]
        IN (IsSome(r.http) /\ ~r.http[1].ok) =>
              /\ IsSome(r.ret)
              /\ ~r.ret[1].ok
              /\ r.ret[1].kind = r.http[1].kind
              /\ r.ret[1].kind # "JsonParse"

InputSymbols(r) ==
    IF r.op \in BulkOps
    THEN {r.input[1].requests[i].asset : i \in 1..Len(r.input[1].requests)}
    ELSE {r.input[1].coin}

IndexMatchesUniverse ==
    LET u == meta.universe
    IN IsBuilt =>
       /\ DOMAIN coin_to_asset = {u[i] : i \in 1..Len(u)}
       /\ \A i \in 1..Len(u) : coin_to_asset[u[i]] = i - 1
       /\ {coin_to_asset[k] : k \in DOMAIN coin_to_asset} = 0..(Len(u) - 1)
       /\ \A k, l \in DOMAIN coin_to_asset :
             coin_to_asset[k] = coin_to_asset[l] => k = l

UnknownSymbolFails ==
    \A c \in DOMAIN calls :
        LET r == calls[c]
            u == meta.universe
        IN (r.op \in L1Ops /\ InputSymbols(r) \ {u[i] : i \in 1..Len(u)} # {})
           => /\ IsErr(r, "AssetNotFound")
              /\ r.hashed = None
              /\ r.action = None
              /\ r.posted = <<>>

\* C6: once new has returned the client, the asset index maps the symbol at
\* zero-based position i of the universe (given to new or fetched by it) to i,
\* a bijection onto [0, n); no operation changes it; and every operation
\* that resolves a symbol outside the universe fails with AssetNotFound without
\* using any index in its place.
C6_AssetIndex ==
    /\ [](IndexMatchesUniverse /\ UnknownSymbolFails)
    /\ [][IsBuilt => (coin_to_asset' = coin_to_asset /\ meta' = meta)]_vars

\* a client of a two-symbol universe asked for the leverage of an unlisted symbol
C6_Witness ==
    \E c \in DOMAIN calls :
        LET r == calls[c]
        IN /\ IsBuilt
           /\ Len(meta.universe) = 2
           /\ coin_to_asset[meta.universe[2]] = 1
           /\ r.op = "update_leverage"
           /\ r.input[1].coin \notin DOMAIN coin_to_asset
           /\ IsErr(r, "AssetNotFound")

\* C7: in approve_agent the submitted agent_address is the address of the
\* generated key, the connection id embedded and signed is the hash of that
\* address, the signer is the client's wallet and not the agent key, and a
\* returned value pairs the generated key with the parsed submission result.
C7_AgentApproval ==
    \A c \in DOMAIN calls :
        LET r == calls[c]
            k == r.input[1].random_key
        IN r.op = "approve_agent" =>
              /\ IsSome(r.action) =>
                    /\ r.action[1].agent_address = AddressOf(k)
                    /\ r.action[1].agent.connection_id = keccak(AddressOf(k))
              /\ IsSome(r.signature) =>
                    /\ r.signature[1].signer = wallet
                    /\ r.signature[1].signer # [private_key |-> k]
                    /\ r.signature[1].msg.connection_id = keccak(AddressOf(k))
                    /\ r.signature[1].msg.source = AgentSource
              /\ Submitted(r) =>
                    /\ Envelope(r).action = r.action[1]
                    /\ Envelope(r).signature = r.signature[1]
              /\ (IsSome(r.ret) /\ r.ret[1].ok) =>
                    r.ret[1].val = <<EncodeHex(k), post_response(r.http[1]).val>>

\* an agent approval that returned the key with the exchange's status
C7_Witness ==
    \E c \in DOMAIN calls :
        LET r == calls[c]
        IN /\ r.op = "approve_agent"
           /\ IsSome(r.ret)
           /\ r.ret[1].ok
           /\ r.ret[1].val[1] = EncodeHex(2)

HashArity(op) ==
    CASE op = "bulk_order" -> 4
      [] op = "bulk_cancel" -> 3
      [] OTHER -> 5

\* the vault field is the one before the timestamp
HashedVault(r) == r.hashed[1][HashArity(r.op) - 1]

\* C8: the vault field of the hash input of every L1 operation is the
\* configured vault address, or the zero address when none is configured, and
\* is never dropped; the envelope's vault_address is the configured option
\* itself, absent when none is configured.
C8_VaultSubstitution ==
    \A c \in DOMAIN calls :
        LET r == calls[c]
        IN (r.op \in L1Ops /\ IsSome(r.hashed)) =>
              /\ Len(r.hashed[1]) = HashArity(r.op)
              /\ HashedVault(r) =
                    IF IsSome(vault_address) THEN vault_address[1] ELSE ZeroAddress
              /\ Submitted(r) =>
                    /\ Envelope(r).vault_address = vault_address
                    /\ ~IsSome(vault_address) => Envelope(r).vault_address = None

\* an L1 action submitted by a client without a vault
C8_Witness ==
    \E c \in DOMAIN calls :
        LET r == calls[c]
        IN r.op \in L1Ops /\ Submitted(r) /\ vault_address = None

\* C9 as stated: with a clock that never goes backwards, any two submissions
\* through the same client carry distinct nonces.
C9_DistinctNonces ==
    \A a, b \in DOMAIN calls :
        (a # b /\ Submitted(calls[a]) /\ Submitted(calls[b]))
        => Envelope(calls[a]).nonce # Envelope(calls[b]).nonce

\* C9 amended: every submission builds its own envelope, whose nonce is the
\* clock reading of its call; two submissions carry distinct nonces exactly
\* when their clock readings differ, and the same nonce when both calls read
\* the clock within the same millisecond.
C9_NonceIsClockReading ==
    /\ \A a \in DOMAIN calls :
          LET r == calls[a]
          IN Submitted(r) =>
                /\ Len(r.posted) = 1
                /\ Envelope(r).nonce = Last(r.clock_reads)
                /\ Envelope(r).action = r.action[1]
                /\ Envelope(r).signature = r.signature[1]
    /\ \A a, b \in DOMAIN calls :
          (a # b /\ Submitted(calls[a]) /\ Submitted(calls[b]))
          => (Envelope(calls[a]).nonce # Envelope(calls[b]).nonce
                <=> Last(calls[a].clock_reads) # Last(calls[b].clock_reads))

\* two calls in flight at once that read the clock in different milliseconds
C9_Witness ==
    /\ calls[1].pc = "posting"
    /\ calls[2].pc = "posting"
    /\ calls[1].clock_reads = <<0>>
    /\ calls[2].clock_reads = <<1>>
    /\ Envelope(calls[1]).nonce # Envelope(calls[2]).nonce

\* position of a step in the pipeline resolve, encode and hash, sign, submit, parse
Rank(step) ==
    CASE step \in {"keygen", "derive"} -> 0
      [] step = "resolve" -> 1
      [] step \in {"hash", "encode"} -> 2
      [] step = "sign" -> 3
      [] step \in {"envelope", "submit"} -> 4
      [] step = "parse" -> 5

StepSet(r) == {r.steps[i] : i \in 1..Len(r.steps)}
Count(r, step) == Cardinality({i \in 1..Len(r.steps) : r.steps[i] = step})

\* the error each step of the client ends the call with when it fails
StepError(step) ==
    CASE step = "keygen" -> "KeyGenerationFailure"
      [] step = "derive" -> "PrivateKeyParse"
      [] step = "resolve" -> "AssetNotFound"
      [] step = "sign" -> "SigningFailure"
      [] OTHER -> "JsonParse"

LinearPipeline(r) ==
    /\ \A i, j \in 1..Len(r.steps) : i < j => Rank(r.steps[i]) <= Rank(r.steps[j])
    /\ \A step \in StepSet(r) : Count(r, step) = 1
    /\ "parse" \in StepSet(r) => "submit" \in StepSet(r)
    /\ "submit" \in StepSet(r) => {"sign", "envelope"} \subseteq StepSet(r)
    /\ "sign" \in StepSet(r) => "encode" \in StepSet(r)
    /\ ("encode" \in StepSet(r) /\ r.op \in L1Ops) => {"resolve", "hash"} \subseteq StepSet(r)
    /\ Len(r.posted) = Count(r, "submit")
    /\ Len(r.posted) <= 1
    /\ IsSome(r.failed) =>
          /\ r.pc = "done"
          /\ Last(r.steps) = r.failed[1]
          /\ IsSome(r.ret) /\ ~r.ret[1].ok
          /\ IF r.failed[1] = "submit"
             THEN ~r.http[1].ok /\ r.ret[1].msg = r.http[1].msg
             ELSE r.ret[1].kind = StepError(r.failed[1])
    /\ (IsSome(r.ret) /\ ~r.ret[1].ok) => IsSome(r.failed)
    /\ r.pc = "done" <=> IsSome(r.ret)

\* C10: each call is one linear pipeline resolve, encode and hash, sign,
\* submit, parse: a step runs only after the earlier ones succeeded, the first
\* failing step ends the call with its error, post is invoked at most once, and
\* a call that has returned does nothing more (no retry, no re-submission).
C10_LinearPipeline ==
    /\ [](\A c \in DOMAIN calls : LinearPipeline(calls[c]))
    /\ [][\A c \in DOMAIN calls :
             /\ calls[c].pc = "done" => calls'[c] = calls[c]
             /\ Len(calls[c].posted) = 1 => calls'[c].posted = calls[c].posted]_vars

\* a call whose submission failed in the transport and which has returned
C10_Witness ==
    \E c \in DOMAIN calls :
        LET r == calls[c]
        IN /\ r.pc = "done"
           /\ r.failed = Some("submit")
           /\ Len(r.posted) = 1
           /\ ~r.http[1].ok
====
